---------------------------- MODULE Spec2Model ----------------------------
(***************************************************************************)
(* Model of src/videoconvert.py: ImageAnalyzer.analyze_image,              *)
(* FrameExtractor.extract_frames, VideoConverter.convert_to_mp4 and the    *)
(* batch loop of main.                                                     *)
(*                                                                         *)
(* Three specifications share the definitions below:                       *)
(*   Spec       one call of extract_frames (analysis, compositing loop,    *)
(*              clean-up handler) on one animated image;                   *)
(*   SpecSplit  the split computation of convert_to_mp4 on a frame list;   *)
(*   SpecBatch  main's loop over the input files, each one going through   *)
(*              convert_to_mp4 (extraction abstracted to its return        *)
(*              value, segments encoded one at a time).                    *)
(*                                                                         *)
(* The image decoder (PIL) and the encoder (moviepy) are collaborators.    *)
(* A decoded frame is what spec.md section 3 calls a Frame: the raw tile   *)
(* (an image of the tile's own size) with its placement rectangle          *)
(* frame.tile[0][1] = (x0, y0, x1, y1) inside the canvas.  Pixels are      *)
(* palette indices; convert('RGBA') maps them to colour and alpha.         *)
(***************************************************************************)
EXTENDS Integers, Sequences, FiniteSets, TLC

(***************************************************************************)
(* Bounds of the model.                                                    *)
(***************************************************************************)
MaxFrames == 3
MaxLen == 50
MaxFiles == 2
MaxBatchFrames == 3

VARIABLES
    \* ---- extract_frames (Spec)
    img,            \* the opened container: size, tile rectangles, n_frames?
    pc,             \* position in extract_frames
    image_info,     \* analyze_image's result
    scan_raised,    \* the metadata scan raised (caught at line 77)
    frame_index,    \* enumerate() index of the next loop iteration
    frame,          \* the frame decoded last (raw tile, palette indices)
    last_frame,     \* running canvas
    frame_paths,    \* list of saved frame files (file = frame index)
    disk,           \* the output directory: file -> saved RGBA image
    ret,            \* extract_frames' return value
    raised,         \* the except branch of line 132 ran
    decoded,        \* history: the source frames decoded by the loop so far
    \* ---- split (SpecSplit, SpecBatch)
    frames,         \* frame list returned by extract_frames
    split_ratio,
    split_index,
    segments,
    spc,            \* position in the split computation
    \* ---- convert_to_mp4 and main (SpecBatch)
    input_files,    \* per input file: does Path(file).exists()
    file_no,        \* index of the file main is at (1-based)
    mpc,            \* position in main / convert_to_mp4
    seg_no,         \* enumerate(segments, 1) index of the next segment
    output_files,   \* convert_to_mp4's output_files
    processed_files,
    passed,         \* history: files handed to convert_to_mp4
    results,        \* history: per file "missing", "None" or the list returned
    enc_failed      \* history: the encoder raised on a non-empty segment

extractVars == <<img, pc, image_info, scan_raised, frame_index, frame,
                 last_frame, frame_paths, disk, ret, raised, decoded>>
splitVars == <<frames, split_ratio, split_index, segments, spc>>
batchVars == <<input_files, file_no, mpc, seg_no, output_files,
               processed_files, passed, results, enc_failed>>
vars == <<extractVars, splitVars, batchVars>>

(***************************************************************************)
(* Images.  An image is [w, h, px] with px a function on its coordinates.  *)
(***************************************************************************)
Coords(w, h) == (0 .. w - 1) \X (0 .. h - 1)

\* Palette indices of a decoded tile; index 0 is the transparency index.
Palette == {0, 1}

\* The colour each palette index stands for.
PaletteColour(i) == IF i = 0 THEN "black" ELSE "red"

\* One pixel of Image.convert('RGBA'): colour plus alpha.
PixelRGBA(i) == [rgb |-> PaletteColour(i), a |-> IF i = 0 THEN 0 ELSE 255]

\* Image.convert('RGBA'): same size, every pixel converted.
ConvertRGBA(im) ==
    [w |-> im.w, h |-> im.h,
     px |-> [c \in Coords(im.w, im.h) |-> PixelRGBA(im.px[c])]]

\* Placement rectangles (x0, y0, x1, y1) inside a canvas of the given size.
Rects(w, h) ==
    {r \in (0 .. w) \X (0 .. h) \X (0 .. w) \X (0 .. h) :
        r[1] < r[3] /\ r[2] < r[4]}

\* The raw tile the decoder yields for a placement rectangle: an image of
\* the rectangle's size, here of one palette index throughout.
Tile(rect, idx) ==
    [w |-> rect[3] - rect[1], h |-> rect[4] - rect[2],
     px |-> [c \in Coords(rect[3] - rect[1], rect[4] - rect[2]) |-> idx]]

\* Image.paste(im, box, mask) onto dest: inside the pasted region, where
\* the mask's alpha is set, the pixel of im; elsewhere dest's own pixel.
\* The region is clipped to dest.
Paste(dest, im, box, mask) ==
    [w |-> dest.w, h |-> dest.h,
     px |-> [c \in Coords(dest.w, dest.h) |->
              LET s == <<c[1] - box[1], c[2] - box[2]>>
              IN  IF s \in Coords(im.w, im.h) /\ mask.px[s].a = 255
                  THEN im.px[s]
                  ELSE dest.px[c]]]

(***************************************************************************)
(* ImageAnalyzer.analyze_image                                             *)
(***************************************************************************)
NFrames(im) == Len(im.tiles)

\* getattr(img, 'is_animated', False)
IsAnimated(im) == NFrames(im) > 1

\* tile[1][2:] of a tile whose extent tile[1] is (x0, y0, x1, y1).
TileExtentTail(rect) == <<rect[3], rect[4]>>

\* The scan loop of lines 62-71 from frame i (1-based) on.  err = k > 0:
\* reaching the k-th frame raises; err = 0: no frame raises.
RECURSIVE ScanFrames(_, _, _)
ScanFrames(im, i, err) ==
    IF i > NFrames(im)
    THEN [mode |-> "full", durations |-> NFrames(im), raised |-> FALSE]
    ELSE IF err = i
    THEN [mode |-> "full", durations |-> i - 1, raised |-> TRUE]
    ELSE IF TileExtentTail(im.tiles[i]) # im.size
    THEN [mode |-> "partial", durations |-> i, raised |-> FALSE]
    ELSE ScanFrames(im, i + 1, err)

\* analyze_image: the fields of image_info the callers read.  The except
\* branch of line 77 skips lines 73-75, so a raising scan leaves
\* frame_count at the value line 59 gave it.
AnalyzeImage(im, err) ==
    IF ~IsAnimated(im)
    THEN [size |-> im.size, mode |-> "full", frame_count |-> 1]
    ELSE LET n0 == IF im.has_n_frames THEN NFrames(im) ELSE 0
             s  == ScanFrames(im, 1, err)
         IN  [size |-> im.size, mode |-> s.mode,
              frame_count |-> IF ~s.raised /\ n0 = 0 THEN s.durations ELSE n0]

\* Whether the scan of analyze_image ran into its except branch.
ScanRaises(im, err) == IsAnimated(im) /\ ScanFrames(im, 1, err).raised

(***************************************************************************)
(* FrameExtractor.extract_frames                                           *)
(***************************************************************************)
NoInfo == [size |-> <<0, 0>>, mode |-> "none", frame_count |-> 0]
NoImage == [w |-> 0, h |-> 0, px |-> [c \in Coords(0, 0) |-> 0]]
EmptyDir == [f \in {} |-> NoImage]

\* img.size of the images the model opens.
CanvasSize == <<2, 2>>

\* The images the model opens: the canvas and 1..MaxFrames frames, each
\* with any placement rectangle inside the canvas; n_frames may be missing.
TileSeqs ==
    UNION {[1 .. n -> Rects(CanvasSize[1], CanvasSize[2])] : n \in 1 .. MaxFrames}
Images ==
    {[size |-> CanvasSize, tiles |-> t, has_n_frames |-> b] :
        t \in TileSeqs, b \in BOOLEAN}

\* The frame the iterator yields at index i (0-based): at index 0 the frame
\* img is already at, later a newly decoded tile of any content.
DecodedFrames(im, i, current) ==
    IF i = 0 THEN {current}
    ELSE {Tile(im.tiles[i + 1], idx) : idx \in Palette}

\* Lines 122-126: the bitmap produced for one frame.
NewFrame(mode, last, fr) ==
    IF mode = "partial"
    THEN Paste(last, ConvertRGBA(fr), <<0, 0>>, ConvertRGBA(fr))
    ELSE ConvertRGBA(fr)

\* new_frame.save(frame_filename, 'PNG'): the file holds the bitmap.
Save(dir, name, im) == (name :> im) @@ [f \in DOMAIN dir \ {name} |-> dir[f]]

\* Mutant of RemoveFrames: the clean-up loop misses the first saved frame.
RemoveFramesSkipFirst(dir, paths) ==
    [f \in DOMAIN dir \ {paths[i] : i \in DOMAIN paths \ {1}} |-> dir[f]]

\* Lines 135-139: os.remove of every path of frame_paths.
RemoveFrames(dir, paths) ==
    [f \in DOMAIN dir \ {paths[i] : i \in DOMAIN paths} |-> dir[f]]

\* Image.open of line 46 raises: analyze_image is called outside the try of
\* extract_frames, so the exception leaves extract_frames.
AnalyzeOpenRaises ==
    /\ pc = "call"
    /\ pc' = "exception"
    /\ UNCHANGED <<img, image_info, scan_raised, frame_index, frame, last_frame,
                   frame_paths, disk, ret, raised, decoded>>
    /\ UNCHANGED <<splitVars, batchVars>>

\* Lines 100-107: analyse, return [] for at most one frame.
ExtractStart ==
    /\ pc = "call"
    /\ \E err \in 0 .. NFrames(img) :
          /\ image_info' = AnalyzeImage(img, err)
          /\ scan_raised' = ScanRaises(img, err)
    /\ IF image_info'.frame_count <= 1
       THEN pc' = "returned" /\ ret' = <<>>
       ELSE pc' = "open" /\ ret' = ret
    /\ UNCHANGED <<img, frame_index, frame, last_frame, frame_paths, disk,
                   raised, decoded>>
    /\ UNCHANGED <<splitVars, batchVars>>

\* Lines 110-112: open at frame 0, last_frame = img.convert('RGBA').
OpenImage ==
    /\ pc = "open"
    /\ \E idx \in Palette :
          /\ frame' = Tile(img.tiles[1], idx)
          /\ last_frame' = ConvertRGBA(frame')
    /\ frame_index' = 0
    /\ pc' = "loop"
    /\ UNCHANGED <<img, image_info, scan_raised, frame_paths, disk, ret,
                   raised, decoded>>
    /\ UNCHANGED <<splitVars, batchVars>>

\* Lines 114-130: one iteration.  Iteration 0 sees the frame img is at.
\* Decoded pixels are colours already: the palette put back at lines 118-119
\* is part of decoding.
LoopBody ==
    /\ pc = "loop"
    /\ frame_index < NFrames(img)
    /\ frame' \in DecodedFrames(img, frame_index, frame)
    /\ LET new_frame == NewFrame(image_info.mode, last_frame, frame')
       IN  /\ disk' = Save(disk, frame_index, new_frame)
           /\ last_frame' = new_frame
    /\ frame_paths' = Append(frame_paths, frame_index)
    /\ decoded' = Append(decoded, frame')
    /\ frame_index' = frame_index + 1
    /\ UNCHANGED <<img, pc, image_info, scan_raised, ret, raised>>
    /\ UNCHANGED <<splitVars, batchVars>>

\* Lines 132-140: opening, decoding, compositing or saving raised; the
\* frames saved so far are removed and [] is returned.
ExtractRaises ==
    /\ \/ pc = "open"
       \/ pc = "loop" /\ frame_index < NFrames(img)
    /\ disk' = RemoveFrames(disk, frame_paths)
    /\ raised' = TRUE
    /\ ret' = <<>>
    /\ pc' = "returned"
    /\ UNCHANGED <<img, image_info, scan_raised, frame_index, frame,
                   last_frame, frame_paths, decoded>>
    /\ UNCHANGED <<splitVars, batchVars>>

\* Lines 142-143: the iterator is exhausted.
ExtractReturn ==
    /\ pc = "loop"
    /\ frame_index = NFrames(img)
    /\ ret' = frame_paths
    /\ pc' = "returned"
    /\ UNCHANGED <<img, image_info, scan_raised, frame_index, frame,
                   last_frame, frame_paths, disk, raised, decoded>>
    /\ UNCHANGED <<splitVars, batchVars>>

(***************************************************************************)
(* The split of convert_to_mp4, lines 180-183.                             *)
(*                                                                         *)
(* split_ratio / 100 and len(frames) * (...) are IEEE-754 double           *)
(* operations (53-bit significand, round to nearest, ties to even) and     *)
(* int() truncates.  A double is [m, e] with the value m / 2^e; m is a     *)
(* natural number held in limbs of 15 bits, least significant first.       *)
(***************************************************************************)
Precision == 53
LimbBits == 15
LimbBase == 2 ^ LimbBits

\* Number of bits of a small natural number.
RECURSIVE BitLen(_)
BitLen(n) == IF n = 0 THEN 0 ELSE 1 + BitLen(n \div 2)

\* Number of bits of a natural number in limbs (no leading zero limb).
BigBitLen(b) ==
    IF b = <<>> THEN 0 ELSE LimbBits * (Len(b) - 1) + BitLen(b[Len(b)])

\* The limbs of b * k + carry, k and carry small.
RECURSIVE BigMul(_, _, _)
BigMul(b, k, carry) ==
    IF b = <<>>
    THEN IF carry = 0 THEN <<>> ELSE <<carry>>
    ELSE <<(b[1] * k + carry) % LimbBase>>
         \o BigMul(Tail(b), k, (b[1] * k + carry) \div LimbBase)

\* The value of a natural number in limbs that fits a machine integer.
RECURSIVE BigToNat(_)
BigToNat(b) == IF b = <<>> THEN 0 ELSE b[1] + LimbBase * BigToNat(Tail(b))

\* floor(b / 2^k).
BigShiftRight(b, k) ==
    LET drop == k \div LimbBits
    IN  IF drop >= Len(b) THEN 0
        ELSE BigToNat(SubSeq(b, drop + 1, Len(b))) \div (2 ^ (k % LimbBits))

\* The first k limbs (most significant first) of the binary fraction
\* r / 100, 0 <= r < 100.
RECURSIVE FracLimbs(_, _)
FracLimbs(r, k) ==
    IF k = 0 THEN <<>>
    ELSE <<(r * LimbBase) \div 100>> \o FracLimbs((r * LimbBase) % 100, k - 1)

\* What is left of r / 100 below its first k limbs.
RECURSIVE FracRem(_, _)
FracRem(r, k) == IF k = 0 THEN r ELSE FracRem((r * LimbBase) % 100, k - 1)

Reverse(q) == [i \in 1 .. Len(q) |-> q[Len(q) + 1 - i]]

\* Number of zero bits before the first one bit of r / 100, 0 < r < 100.
RECURSIVE LeadingZeros(_)
LeadingZeros(r) == IF 2 * r >= 100 THEN 0 ELSE 1 + LeadingZeros(2 * r)

\* b rounded to Precision significant bits, nearest, ties to even; sticky
\* says that the exact value has a non-zero part below b.  The bits dropped
\* lie in the lowest limb (b has at most 67 bits: len below 64).
Round53(b, sticky) ==
    LET d == BigBitLen(b) - Precision
    IN  IF d <= 0 THEN b
        ELSE LET low  == b[1] % (2 ^ d)
                 half == 2 ^ (d - 1)
                 lsb  == (b[1] \div (2 ^ d)) % 2
                 up   == low > half \/ (low = half /\ (sticky \/ lsb = 1))
             IN  BigMul(<<b[1] - low>> \o Tail(b), 1, IF up THEN 2 ^ d ELSE 0)

\* split_ratio / 100 in double arithmetic, 0 < p <= 100.
TrueDiv100(p) ==
    IF p = 100 THEN [m |-> <<1>>, e |-> 0]
    ELSE LET z == LeadingZeros(p)
         IN  [m |-> Round53(Reverse(FracLimbs(p * (2 ^ z), 4)),
                            FracRem(p * (2 ^ z), 4) # 0),
              e |-> 4 * LimbBits + z]

\* len * x in double arithmetic, len a small natural number.
FloatMul(len, x) == [m |-> Round53(BigMul(x.m, len, 0), FALSE), e |-> x.e]

\* int(x) for x >= 0: the part above the binary point.
Truncate(x) == BigShiftRight(x.m, x.e)

\* Line 180: split_index = int(len(frames) * (split_ratio / 100)).
SplitIndex(len, p) == Truncate(FloatMul(len, TrueDiv100(p)))

\* frames[a:b] of Python, 0-based, on a 1-based sequence.
Slice(q, a, b) == SubSeq(q, a + 1, b)

\* Mutant of Segments: the second segment starts one frame late.
SegmentsDropBoundary(fs, si) ==
    IF si < Len(fs)
    THEN <<Slice(fs, 0, si), Slice(fs, si + 1, Len(fs))>>
    ELSE <<Slice(fs, 0, si)>>

\* Lines 181-183: the segments for a computed split_index.
Segments(fs, si) ==
    IF si < Len(fs)
    THEN <<Slice(fs, 0, si), Slice(fs, si, Len(fs))>>
    ELSE <<Slice(fs, 0, si)>>

SplitIdle ==
    /\ frames = <<>> /\ split_ratio = 100 /\ split_index = 0
    /\ segments = <<>> /\ spc = "idle"

BatchIdle ==
    /\ input_files = <<>> /\ file_no = 0 /\ mpc = "idle" /\ seg_no = 0
    /\ output_files = <<>> /\ processed_files = <<>> /\ passed = <<>>
    /\ results = <<>> /\ enc_failed = FALSE

ExtractIdle ==
    /\ img = [size |-> CanvasSize, tiles |-> <<>>, has_n_frames |-> FALSE]
    /\ pc = "idle" /\ image_info = NoInfo /\ scan_raised = FALSE
    /\ frame_index = 0 /\ frame = NoImage /\ last_frame = NoImage
    /\ frame_paths = <<>> /\ disk = EmptyDir /\ ret = <<>>
    /\ raised = FALSE /\ decoded = <<>>

Init ==
    /\ img \in Images
    /\ pc = "call"
    /\ image_info = NoInfo
    /\ scan_raised = FALSE
    /\ frame_index = 0
    /\ frame = NoImage
    /\ last_frame = NoImage
    /\ frame_paths = <<>>
    /\ disk = EmptyDir
    /\ ret = <<>>
    /\ raised = FALSE
    /\ decoded = <<>>
    /\ SplitIdle
    /\ BatchIdle

Next ==
    \/ AnalyzeOpenRaises
    \/ ExtractStart
    \/ OpenImage
    \/ LoopBody
    \/ ExtractRaises
    \/ ExtractReturn

Spec == Init /\ [][Next]_vars

(***************************************************************************)
(* SpecSplit: lines 180-183 applied to a frame list and a split_ratio.     *)
(***************************************************************************)
\* The list extract_frames returns for n frames: the files 0 .. n-1.
FrameList(n) == [i \in 1 .. n |-> i - 1]

\* --percent: 1..99 on the command line, 100 by default (lines 315-318).
SplitRatios == 1 .. 100

Split ==
    /\ spc = "input"
    /\ split_index' = SplitIndex(Len(frames), split_ratio)
    /\ segments' = Segments(frames, split_index')
    /\ spc' = "split"
    /\ UNCHANGED <<frames, split_ratio>>
    /\ UNCHANGED <<extractVars, batchVars>>

InitSplit ==
    /\ frames \in {FrameList(n) : n \in 1 .. MaxLen}
    /\ split_ratio \in SplitRatios
    /\ split_index = 0
    /\ segments = <<>>
    /\ spc = "input"
    /\ ExtractIdle
    /\ BatchIdle

NextSplit == Split

SpecSplit == InitSplit /\ [][NextSplit]_vars

(***************************************************************************)
(* SpecBatch: main's loop (lines 346-361) over convert_to_mp4 (lines       *)
(* 167-214).  extract_frames is taken by its outcomes: it raises (the      *)
(* Image.open of analyze_image), returns [], or returns the list of all    *)
(* n >= 2 frames.  The encoder (ImageSequenceClip, write_videofile) may    *)
(* raise on any segment and raises on an empty frame list.                 *)
(***************************************************************************)
\* A value returned by convert_to_mp4: None, or the list output_files.
None == [none |-> TRUE, files |-> <<>>]
Returned(files) == [none |-> FALSE, files |-> files]

\* Python truthiness of a returned value: None and [] are falsy.
Truthy(v) == ~v.none /\ v.files # <<>>

\* Mutant of ExtendProcessed: the result replaces the list (= for extend).
ExtendProcessedOverwrite(processed, result) ==
    IF Truthy(result) THEN result.files ELSE processed

\* Lines 360-361: if result: processed_files.extend(result).
ExtendProcessed(processed, result) ==
    IF Truthy(result) THEN processed \o result.files ELSE processed

\* Line 192: output_path of segment i of a file, <base_name>_part<i>.mp4.
OutputPath(file, i) == <<file, i>>

\* Lines 211-214 and 360-361: convert_to_mp4 returns (its temporary
\* directory removed), main takes the value and moves to the next file.
MainTakes(kind, value, fs, si, encf) ==
    /\ processed_files' = ExtendProcessed(processed_files, value)
    /\ results' = Append(results, [file |-> input_files[file_no], kind |-> kind,
                                   frames |-> fs, split_index |-> si,
                                   enc_failed |-> encf, value |-> value])
    /\ file_no' = file_no + 1
    /\ mpc' = "main"
    /\ seg_no' = 0
    /\ output_files' = <<>>
    /\ enc_failed' = FALSE

\* Lines 349-351: the file does not exist; continue.
MainMissing ==
    /\ mpc = "main"
    /\ file_no <= Len(input_files)
    /\ MainTakes("missing", None, 0, 0, FALSE)
    /\ UNCHANGED <<input_files, passed>>
    /\ UNCHANGED <<extractVars, splitVars>>

\* Lines 174, 208-214: extract_frames raises; convert_to_mp4 returns None.
ConvertExtractRaises ==
    /\ mpc = "main"
    /\ file_no <= Len(input_files)
    /\ passed' = Append(passed, input_files[file_no])
    /\ MainTakes("extract raised", None, 0, 0, FALSE)
    /\ UNCHANGED input_files
    /\ UNCHANGED <<extractVars, splitVars>>

\* Lines 174-177: extract_frames returns []; convert_to_mp4 returns None.
ConvertNoFrames ==
    /\ mpc = "main"
    /\ file_no <= Len(input_files)
    /\ passed' = Append(passed, input_files[file_no])
    /\ MainTakes("no frames", None, 0, 0, FALSE)
    /\ UNCHANGED input_files
    /\ UNCHANGED <<extractVars, splitVars>>

\* Lines 174-188: extract_frames returns n frames; the split is computed.
ConvertSplit ==
    /\ mpc = "main"
    /\ file_no <= Len(input_files)
    /\ passed' = Append(passed, input_files[file_no])
    /\ \E n \in 2 .. MaxBatchFrames : frames' = FrameList(n)
    /\ split_index' = SplitIndex(Len(frames'), split_ratio)
    /\ segments' = Segments(frames', split_index')
    /\ output_files' = <<>>
    /\ seg_no' = 1
    /\ mpc' = "encode"
    /\ UNCHANGED <<input_files, file_no, processed_files, results, enc_failed,
                   split_ratio, spc>>
    /\ UNCHANGED extractVars

\* Lines 191-206: one segment is encoded and its path appended.
EncodeSegment ==
    /\ mpc = "encode"
    /\ seg_no <= Len(segments)
    /\ segments[seg_no] # <<>>
    /\ output_files' = Append(output_files, OutputPath(input_files[file_no], seg_no))
    /\ seg_no' = seg_no + 1
    /\ UNCHANGED <<input_files, file_no, mpc, processed_files, passed, results,
                   enc_failed>>
    /\ UNCHANGED <<extractVars, splitVars>>

\* Lines 195-205, 208-214: the encoder raises on the segment; output_files
\* becomes None and is returned.
EncodeRaises ==
    /\ mpc = "encode"
    /\ seg_no <= Len(segments)
    /\ MainTakes("converted", None, Len(frames), split_index,
                 segments[seg_no] # <<>>)
    /\ UNCHANGED <<input_files, passed>>
    /\ UNCHANGED <<extractVars, splitVars>>

\* Lines 211-214: every segment is encoded; output_files is returned.
ConvertReturn ==
    /\ mpc = "encode"
    /\ seg_no > Len(segments)
    /\ MainTakes("converted", Returned(output_files), Len(frames), split_index,
                 FALSE)
    /\ UNCHANGED <<input_files, passed>>
    /\ UNCHANGED <<extractVars, splitVars>>

\* Line 372: the loop is over.
MainComplete ==
    /\ mpc = "main"
    /\ file_no > Len(input_files)
    /\ mpc' = "complete"
    /\ UNCHANGED <<input_files, file_no, seg_no, output_files, processed_files,
                   passed, results, enc_failed>>
    /\ UNCHANGED <<extractVars, splitVars>>

InitBatch ==
    /\ input_files \in {[i \in 1 .. k |-> i] : k \in 1 .. MaxFiles}
    /\ split_ratio \in SplitRatios
    /\ file_no = 1
    /\ mpc = "main"
    /\ seg_no = 0
    /\ output_files = <<>>
    /\ processed_files = <<>>
    /\ passed = <<>>
    /\ results = <<>>
    /\ enc_failed = FALSE
    /\ frames = <<>>
    /\ split_index = 0
    /\ segments = <<>>
    /\ spc = "idle"
    /\ ExtractIdle

NextBatch ==
    \/ MainMissing
    \/ ConvertExtractRaises
    \/ ConvertNoFrames
    \/ ConvertSplit
    \/ EncodeSegment
    \/ EncodeRaises
    \/ ConvertReturn
    \/ MainComplete

SpecBatch == InitBatch /\ [][NextBatch]_vars

(***************************************************************************)
(* Properties.                                                             *)
(***************************************************************************)
\* Width and height of a placement rectangle.
TileSize(rect) == <<rect[3] - rect[1], rect[4] - rect[2]>>

\* prev with a tile alpha-pasted at its placement rectangle's origin.
AlphaPasteAt(prev, tile, rect) ==
    Paste(prev, ConvertRGBA(tile), <<rect[1], rect[2]>>, ConvertRGBA(tile))

Analysed == image_info # NoInfo

\* The first frame covers the canvas, so the running canvas starts with
\* the canvas size.
FirstFrameFull == img.tiles # <<>> /\ TileSize(img.tiles[1]) = img.size

C2_ModeIffPartialTile ==
    (Analysed /\ IsAnimated(img) /\ ~scan_raised) =>
        (image_info.mode = "partial"
            <=> \E i \in DOMAIN img.tiles : TileSize(img.tiles[i]) # img.size)

C5_EmptyDistinctFromFailure ==
    pc = "returned" =>
        /\ NFrames(img) <= 1 => (ret = <<>> /\ ~raised /\ DOMAIN disk = {})
        /\ raised => ret # <<>>

\* C10: for an animated image whose scan raises nothing, frame_count is the
\* number of frames of the container, and extract_frames, when nothing
\* raises, does not return [] for two or more frames.
C10_FrameCount ==
    (Analysed /\ IsAnimated(img) /\ ~scan_raised) =>
        /\ image_info.frame_count = NFrames(img)
        /\ (pc = "returned" /\ ~raised) => ret # <<>>

RECURSIVE Concat(_)
Concat(qs) == IF qs = <<>> THEN <<>> ELSE Head(qs) \o Concat(Tail(qs))

\* C6: for a non-empty frame list and 0 < split_ratio <= 100 there are one
\* or two segments whose concatenation, in order, is the frame list; for
\* split_ratio = 100 the one segment is the whole list.
C6_SegmentsPartition ==
    spc = "split" =>
        /\ Len(segments) \in {1, 2}
        /\ Concat(segments) = frames
        /\ split_ratio = 100 => segments = <<frames>>

\* C6, its case: a split into two non-empty segments.
C6_Witness ==
    /\ spc = "split" /\ split_ratio < 100
    /\ Len(segments) = 2
    /\ segments[1] # <<>> /\ segments[2] # <<>>

\* C7: split_index is floor(L * split_ratio / 100) in exact integer
\* arithmetic, the first segment is frames[0:split_index], and there is a
\* second segment, frames[split_index:L], exactly when split_index < L.
C7_ExactSplitIndex ==
    spc = "split" =>
        LET L  == Len(frames)
            si == (L * split_ratio) \div 100
        IN  /\ split_index = si
            /\ segments[1] = Slice(frames, 0, si)
            /\ Len(segments) = 2 <=> si < L
            /\ Len(segments) = 2 => segments[2] = Slice(frames, si, L)

\* C8: a conversion whose split_index is 0, and whose encoder fails on no
\* non-empty segment, returns a list (not None) that holds the video of the
\* second segment.
C8_EmptySegmentSkipped ==
    \A i \in DOMAIN results :
        (/\ results[i].kind = "converted"
         /\ results[i].split_index = 0
         /\ ~results[i].enc_failed)
            => (~results[i].value.none /\ Len(results[i].value.files) = 1)

\* The videos of the files that returned a non-empty list, in input order.
RECURSIVE Collected(_)
Collected(rs) ==
    IF rs = <<>> THEN <<>>
    ELSE (IF rs[1].value.none THEN <<>> ELSE rs[1].value.files)
         \o Collected(Tail(rs))

Existing(rs) == SelectSeq(rs, LAMBDA r : r.kind # "missing")

\* C9: whatever failed for earlier files, main reaches its end only after
\* every input file was handled in input order, every existing one handed
\* to convert_to_mp4, and processed_files holds the videos of the files
\* that succeeded, in input order.
C9_BatchContinues ==
    /\ processed_files = Collected(results)
    /\ mpc = "complete" =>
          /\ Len(results) = Len(input_files)
          /\ \A i \in DOMAIN results : results[i].file = input_files[i]
          /\ passed = [i \in DOMAIN Existing(results) |-> Existing(results)[i].file]

\* C9, its case: the first file fails and the second still succeeds.
C9_Witness ==
    /\ mpc = "complete"
    /\ Len(results) >= 2
    /\ results[1].kind # "missing" /\ results[1].value.none
    /\ ~results[2].value.none /\ results[2].value.files # <<>>
    /\ processed_files = results[2].value.files

=============================================================================
